---- MODULE Spec2Model ----
(***************************************************************************)
(* The change-propagation core of the runtime: the watcher batcher         *)
(* (src/unnamed/part_000), the nextTick task coalescer (src/src/util/env.js)*)
(* and the directive (src/unnamed/part_001): its re-entrancy lock and its  *)
(* lifecycle of _bind, on and _teardown.                                   *)
(*                                                                         *)
(* JavaScript is single threaded: the model has one thread of control,     *)
(* whose position is pc.  User code (the code of a turn of the event loop, *)
(* the body of a nextTick callback, the body of a watcher's run()) is a    *)
(* position at which the program's entry points may be called any number   *)
(* of times before the code returns or throws.                             *)
(***************************************************************************)
EXTENDS Integers, Sequences, FiniteSets, TLC

\* ------------------------------------------------------------------ bounds
\* longest queue / userQueue the environment fills
MaxQueueLen == 4
\* most callbacks the environment leaves pending in the coalescer
MaxCallbacks == 4
\* config._maxUpdateCount (the batcher only reads it, part_000 line 69)
_maxUpdateCount == 1
\* most dynamic params of a directive's definition
MaxParams == 2
\* most listeners the environment registers with a directive
MaxListeners == 2
\* most calls of _bind the environment makes on a directive, and most calls
\* of _teardown it makes between two of them
MaxBinds == 2
MaxTeardowns == 2

\* the watchers (jobs) of the model, by id; watcher 3 is a user watcher
Watchers == {1, 2, 3}
user(w) == w = 3

\* has[id] == null
null == -1

\* the callbacks handed to nextTick: flushBatcherQueue (part_000 line 111), the
\* unlock closure of _withLock (part_001 line 305), and a callback of user
\* code, numbered by its place in the batch it was registered in
FlushCb == 0
UnlockCb == -1
UserCb(n) == n

\* the handlers user code registers with Directive.prototype.on
Handlers == {1, 2}

\* the id of the directive's watcher (this._watcher, part_001 line 142): a
\* directive's watcher is not a user watcher
DirWatcher == 1

VARIABLES
  \* batcher, part_000 lines 15-21
  queueIndex, queue, userQueue, has, circular, waiting, internalQueueDepleted,
  \* nextTick closure, env.js lines 75-77
  callbacks, pending, timerArmed,
  \* nextTickHandler's locals, env.js lines 82-84
  copies, i,
  \* directive, part_001 lines 55-57 and the twoWay property of its definition
  _locked, twoWay,
  \* the directive's watcher: a value written by Directive.set has not yet
  \* been delivered by a run() of the watcher
  stale,
  \* what the _update of the running watcher did
  lastCb,
  \* the last call of Directive.set warned
  setWarned,
  \* control: position of the thread, the queue runBatcherQueue iterates,
  \* the watcher whose run() is executing
  pc, phase, cur,
  \* history of the current flush
  runs, selfRuns, warned, preEnq, reEnq, owed, userStarted, spliced, selfPushed,
  \* the watchers that waited in a queue when the runaway check stopped a
  \* pass, and have not been started since
  leftBehind,
  \* the watchers pushWatcher spliced into the user queue during the run() in
  \* progress, and those it spliced during the run() before it when that was
  \* the run() of a user watcher, in the order of the calls
  splicedNow, prevSpliced,
  \* a flush was left by an exception
  aborted,
  \* history of the current drain
  invoked,
  \* the number of callbacks at the head of the batch that were registered
  \* while the drain before it was running
  late,
  \* directive, part_001 lines 46-59: the fields of the lifecycle
  _bound, _watcher, _listeners, _paramUnwatchFns, vm, el,
  \* the directive's descriptor and definition: lines 55, 51-53, 96-102
  literal, expression, statement, def, params,
  \* the calls the directive has made to its capabilities and collaborators
  \* since its last _bind began, the number of calls of _bind, and the number
  \* of calls of _teardown since the last _bind
  calls, binds, teardowns

progVars == <<queueIndex, queue, userQueue, has, circular, waiting,
              internalQueueDepleted, callbacks, pending, timerArmed, _locked>>
histVars == <<runs, selfRuns, warned, preEnq, reEnq, owed, userStarted, spliced,
              selfPushed, aborted, leftBehind, splicedNow, prevSpliced>>
lifeVars == <<_bound, _watcher, _listeners, _paramUnwatchFns, vm, el, literal,
              expression, statement, def, params, calls, binds, teardowns>>
dirVars == <<twoWay, stale, lastCb, setWarned>>
vars == <<progVars, copies, i, pc, phase, cur, histVars, invoked, dirVars, lifeVars, late>>

\* the program's state as one value, so that a call is a function of it
St ==
  [queueIndex |-> queueIndex, queue |-> queue, userQueue |-> userQueue,
   has |-> has, circular |-> circular, waiting |-> waiting,
   internalQueueDepleted |-> internalQueueDepleted,
   callbacks |-> callbacks, pending |-> pending, timerArmed |-> timerArmed,
   _locked |-> _locked]

Assign(S) ==
  /\ queueIndex' = S.queueIndex
  /\ queue' = S.queue
  /\ userQueue' = S.userQueue
  /\ has' = S.has
  /\ circular' = S.circular
  /\ waiting' = S.waiting
  /\ internalQueueDepleted' = S.internalQueueDepleted
  /\ callbacks' = S.callbacks
  /\ pending' = S.pending
  /\ timerArmed' = S.timerArmed
  /\ _locked' = S._locked

\* ------------------------------------------------------------- env.js
\* nextTick(cb): push, and arm the timer unless one is pending
nextTick(S, cb) ==
  LET S1 == [S EXCEPT !.callbacks = Append(@, cb)]
  IN  IF S1.pending
        THEN S1
        ELSE [S1 EXCEPT !.pending = TRUE, !.timerArmed = @ + 1]

\* ------------------------------------------------------------- part_000
\* Array.prototype.splice(start, 0, w)
splice(q, start, w) ==
  LET s == IF start > Len(q) THEN Len(q) ELSE start
  IN  SubSeq(q, 1, s) \o <<w>> \o SubSeq(q, s + 1, Len(q))

\* pushWatcher with the two queues exchanged
pushWatcher_swapped(S, w) ==
  IF S.has[w] = null
    THEN IF S.internalQueueDepleted /\ ~user(w)
           THEN [S EXCEPT !.userQueue = splice(@, S.queueIndex + 1, w)]
           ELSE LET S1 == IF user(w)
                            THEN [S EXCEPT !.has[w] = Len(S.queue),
                                           !.queue = Append(@, w)]
                            ELSE [S EXCEPT !.has[w] = Len(S.userQueue),
                                           !.userQueue = Append(@, w)]
                IN  IF ~S1.waiting
                      THEN nextTick([S1 EXCEPT !.waiting = TRUE], FlushCb)
                      ELSE S1
    ELSE S

pushWatcher(S, w) ==
  IF S.has[w] = null
    THEN IF S.internalQueueDepleted /\ ~user(w)
           THEN [S EXCEPT !.userQueue = splice(@, S.queueIndex + 1, w)]
           ELSE LET S1 == IF user(w)
                            THEN [S EXCEPT !.has[w] = Len(S.userQueue),
                                           !.userQueue = Append(@, w)]
                            ELSE [S EXCEPT !.has[w] = Len(S.queue),
                                           !.queue = Append(@, w)]
                IN  IF ~S1.waiting
                      THEN nextTick([S1 EXCEPT !.waiting = TRUE], FlushCb)
                      ELSE S1
    ELSE S

resetBatcherState(S) ==
  [S EXCEPT !.queue = <<>>, !.userQueue = <<>>,
            !.has = [w \in Watchers |-> null],
            !.circular = [w \in Watchers |-> 0],
            !.waiting = FALSE, !.internalQueueDepleted = FALSE]

\* runBatcherQueue without line 64
clearHas_skipped(h, w) == h

\* runBatcherQueue line 64: has[id] = null
clearHas(h, w) == [h EXCEPT ![w] = null]

\* ------------------------------------------------------------- part_001
\* the _update wrapper of _bind, lines 128-132: dir.update unless locked
_update(locked) == IF ~locked THEN "update" ELSE "noop"

\* Watcher.prototype.run: the callback is called when the value has changed
WatcherRun(changed, locked) == IF changed THEN _update(locked) ELSE "none"

\* Watcher.prototype.set(value): the write notifies the watcher when it
\* changes the value, and the watcher's update() calls pushWatcher(this)
WatcherSet(S, changed) ==
  IF changed THEN pushWatcher(S, DirWatcher) ELSE S

\* Directive.prototype._withLock(fn), lines 301-308, fn the closure of set
_withLock(S, changed) ==
  nextTick(WatcherSet([S EXCEPT !._locked = TRUE], changed), UnlockCb)

\* set without the test of line 282
DirectiveSet_unchecked(S, changed) == _withLock(S, changed)

\* Directive.prototype.set(value), lines 280-292; the other branch warns
DirectiveSet(S, changed) ==
  IF twoWay THEN _withLock(S, changed) ELSE S

\* the directive's fields as one value
Dir ==
  [_bound |-> _bound, _watcher |-> _watcher, _listeners |-> _listeners,
   _paramUnwatchFns |-> _paramUnwatchFns, vm |-> vm, el |-> el, calls |-> calls]

AssignDir(D) ==
  /\ _bound' = D._bound
  /\ _watcher' = D._watcher
  /\ _listeners' = D._listeners
  /\ _paramUnwatchFns' = D._paramUnwatchFns
  /\ vm' = D.vm
  /\ el' = D.el
  /\ calls' = D.calls

\* the directive calls a capability of its definition or a collaborator
call(D, name, arg) == [D EXCEPT !.calls = Append(@, <<name, arg>>)]

\* the argument of a call of update: descriptor.raw (line 114), watcher.value
\* (line 162), the handler of _checkStatement (line 266)
RawArg == 0
ValueArg == 1
HandlerArg == 2
\* the argument of a call that has none
NoArg == 0

\* _setupParams lines 179-195, n the value of i: every param of the model is a
\* dynamic one, for which _setupParamWatcher (lines 205-225) calls $watch and
\* pushes the unwatch function
RECURSIVE _setupParams(_, _)
_setupParams(D, n) ==
  IF n = 0
    THEN D
    ELSE _setupParams([call(D, "$watch", n) EXCEPT !._paramUnwatchFns = Append(@, n)],
                      n - 1)

\* _checkStatement lines 245-269: the condition of line 247
_checkStatement == expression /\ statement

\* _bind lines 142-163: created tells whether new Watcher returned a watcher
newWatcher(D, created) ==
  IF created
    THEN LET D1 == [call(D, "new Watcher", NoArg) EXCEPT !._watcher = DirWatcher]
         IN  IF "afterBind" \in def
               THEN call(D1, "afterBind", NoArg)
               ELSE IF "update" \in def THEN call(D1, "update", ValueArg) ELSE D1
    ELSE D

\* _bind with a literal branch that sets up a watcher
_bind_watching(D, created) ==
  LET D1 == _setupParams(D, params)
      D2 == IF "bind" \in def THEN call(D1, "bind", NoArg) ELSE D1
      D3 == [D2 EXCEPT !._bound = TRUE]
  IN  IF expression /\ ("update" \in def \/ twoWay)
        THEN IF _checkStatement
               THEN call(D3, "update", HandlerArg)
               ELSE newWatcher(D3, created)
        ELSE D3

\* Directive.prototype._bind, lines 82-165
_bind(D, created) ==
  LET D1 == _setupParams(D, params)
      D2 == IF "bind" \in def THEN call(D1, "bind", NoArg) ELSE D1
      D3 == [D2 EXCEPT !._bound = TRUE]
  IN  IF literal
        THEN IF "update" \in def THEN call(D3, "update", RawArg) ELSE D3
        ELSE IF expression /\ ("update" \in def \/ twoWay)
               THEN IF _checkStatement
                      THEN call(D3, "update", HandlerArg)
                      ELSE newWatcher(D3, created)
               ELSE D3

\* Directive.prototype.on, lines 320-324: attached tells whether on(this.el,
\* ...) of util returned; _listeners is the record of the registrations
on(D, handler, attached) ==
  IF attached
    THEN [D EXCEPT !._listeners = Append(@, handler)]
    ELSE D

\* the calls of a loop that walks fns from its first entry to its last
forward(name, fns) == [k \in 1..Len(fns) |-> <<name, fns[k]>>]

\* _teardown lines 342-345 and 349-352: i = length; while (i--) ...
reverse(name, fns) == [k \in 1..Len(fns) |-> <<name, fns[Len(fns) + 1 - k]>>]

\* _teardown lines 332-357, the body of the if
teardownBody(D) ==
  LET cs == (IF "unbind" \in def THEN << <<"unbind", NoArg>> >> ELSE <<>>)
            \o (IF D._watcher # null THEN << <<"teardown", NoArg>> >> ELSE <<>>)
            \o reverse("off", D._listeners)
            \o reverse("unwatch", D._paramUnwatchFns)
  IN  [D EXCEPT !._bound = FALSE, !.calls = @ \o cs, !.vm = FALSE, !.el = FALSE,
                !._watcher = null, !._listeners = <<>>]

\* _teardown without the test of line 331
_teardown_unguarded(D) == teardownBody(D)

\* Directive.prototype._teardown, lines 330-359
_teardown(D) == IF D._bound THEN teardownBody(D) ELSE D

\* the queue runBatcherQueue was called with
Q == IF phase = "queue" THEN queue ELSE userQueue

\* ------------------------------------------------------------- initial state
InitState ==
  /\ queueIndex = 0
  /\ queue = <<>>
  /\ userQueue = <<>>
  /\ has = [w \in Watchers |-> null]
  /\ circular = [w \in Watchers |-> 0]
  /\ waiting = FALSE
  /\ internalQueueDepleted = FALSE
  /\ callbacks = <<>>
  /\ pending = FALSE
  /\ timerArmed = 0
  /\ copies = <<>>
  /\ i = 0
  /\ _locked = FALSE
  /\ pc = "idle"
  /\ phase = "queue"
  /\ cur = 0
  /\ runs = [w \in Watchers |-> 0]
  /\ selfRuns = [w \in Watchers |-> 0]
  /\ warned = [w \in Watchers |-> 0]
  /\ preEnq = {}
  /\ reEnq = {}
  /\ owed = {}
  /\ userStarted = FALSE
  /\ spliced = {}
  /\ selfPushed = FALSE
  /\ aborted = FALSE
  /\ invoked = <<>>
  /\ stale = FALSE
  /\ lastCb = "none"
  /\ setWarned = FALSE
  /\ leftBehind = {}
  /\ splicedNow = <<>>
  /\ prevSpliced = <<>>
  /\ late = 0

\* the directive after new Directive(...), part_001 lines 45-69
Constructed ==
  /\ _bound = FALSE
  /\ _watcher = null
  /\ _listeners = <<>>
  /\ _paramUnwatchFns = <<>>
  /\ vm = TRUE
  /\ el = TRUE
  /\ calls = <<>>
  /\ binds = 0
  /\ teardowns = 0

\* the directive after new Directive(...)._bind(), its definition an update
\* function and its expression a path: it has a watcher
Bound ==
  /\ literal = FALSE
  /\ expression = TRUE
  /\ statement = FALSE
  /\ def = {"update"}
  /\ params = 0
  /\ _bound = TRUE
  /\ _watcher = DirWatcher
  /\ _listeners = <<>>
  /\ _paramUnwatchFns = <<>>
  /\ vm = TRUE
  /\ el = TRUE
  /\ calls = << <<"new Watcher", NoArg>>, <<"update", ValueArg>> >>
  /\ binds = 1
  /\ teardowns = 0

\* a bound two-way directive
Init == InitState /\ twoWay = TRUE /\ Bound

\* a bound directive that is not two-way
InitOneWay == InitState /\ twoWay = FALSE /\ Bound

\* the definitions of the model, each the set of the capabilities it has: an
\* empty object, an update function, bind and unbind without update, the three
\* of them, and update with afterBind
Definitions ==
  {{}, {"update"}, {"bind", "unbind"}, {"bind", "update", "unbind"},
   {"update", "afterBind"}}

\* a directive that has been constructed: the literal modifier is a modifier,
\* and a statement is an expression of a definition that has update
InitLife ==
  /\ InitState
  /\ Constructed
  /\ twoWay \in BOOLEAN
  /\ literal \in BOOLEAN
  /\ expression \in BOOLEAN
  /\ statement \in BOOLEAN
  /\ def \in Definitions
  /\ params \in {0, MaxParams}
  /\ literal => expression
  /\ statement => (expression /\ "update" \in def)

\* ------------------------------------------------------------- user code
InUserCode == pc \in {"idle", "cb", "run"}
InFlush == pc \in {"qloop", "qbreak", "run"}

\* the number of places of q that hold w
Count(w, q) == Cardinality({k \in 1..Len(q) : q[k] = w})

\* the places of the two queues whose watcher has not been started: during
\* a flush, and after an exception has left one, the places behind the last
\* one started
Waiting(w) ==
  IF InFlush \/ aborted
    THEN LET from == IF pc = "qloop" THEN queueIndex + 1 ELSE queueIndex + 2
         IN  Cardinality({k \in from..Len(Q) : Q[k] = w})
             + (IF phase = "queue" THEN Count(w, userQueue) ELSE 0)
    ELSE Count(w, queue) + Count(w, userQueue)

\* what the history variables record of a call of pushWatcher(w)
PushHistory(w) ==
  /\ preEnq' = IF pc = "run" THEN preEnq ELSE preEnq \cup {w}
  /\ reEnq' = IF pc = "run" THEN reEnq \cup {w} ELSE reEnq
  /\ selfPushed' = (selfPushed \/ (pc = "run" /\ w = cur))
  /\ owed' = IF pc = "run" /\ phase = "queue" /\ ~user(w) /\ w # cur /\ has[w] = null
               THEN owed \cup {w} ELSE owed
  /\ spliced' = IF pc = "run" /\ has[w] = null /\ internalQueueDepleted /\ ~user(w)
                  THEN spliced \cup {w} ELSE spliced
  /\ splicedNow' = IF pc = "run" /\ has[w] = null /\ internalQueueDepleted /\ ~user(w)
                     THEN Append(splicedNow, w) ELSE splicedNow
  /\ UNCHANGED <<runs, selfRuns, warned, userStarted, aborted, leftBehind,
                 prevSpliced>>

\* a call of pushWatcher(w) by user code: a turn's code, a callback, or the
\* run() of the watcher cur
CallPushWatcher(w) ==
  /\ InUserCode
  /\ Len(queue) < MaxQueueLen
  /\ Len(userQueue) < MaxQueueLen
  /\ Len(callbacks) < MaxCallbacks
  /\ Assign(pushWatcher(St, w))
  /\ PushHistory(w)
  /\ UNCHANGED <<copies, i, pc, phase, cur, invoked, dirVars, lifeVars, late>>

\* a call of nextTick(cb) by user code, cb a callback of the caller's
CallNextTick ==
  /\ InUserCode
  /\ Len(callbacks) < MaxCallbacks
  /\ Assign(nextTick(St, UserCb(Len(callbacks) + 1)))
  /\ UNCHANGED <<copies, i, pc, phase, cur, histVars, invoked, dirVars, lifeVars, late>>

\* Directive.prototype.set(value), lines 280-292, called by user code; changed
\* tells whether value differs from the expression's value
CallSet(changed) ==
  /\ InUserCode
  /\ twoWay => _watcher # null
  /\ Len(queue) < MaxQueueLen
  /\ Len(userQueue) < MaxQueueLen
  /\ Len(callbacks) + 2 <= MaxCallbacks
  /\ Assign(DirectiveSet(St, changed))
  /\ stale' = (stale \/ (twoWay /\ changed))
  /\ setWarned' = (~twoWay)
  /\ IF twoWay /\ changed
       THEN PushHistory(DirWatcher)
       ELSE UNCHANGED histVars
  /\ UNCHANGED <<copies, i, pc, phase, cur, invoked, twoWay, lastCb, lifeVars, late>>

\* set(value) on a two-way directive that has no watcher: this._watcher.set of
\* line 284 throws after line 303 has taken the lock, and line 305 is not
\* reached
CallSetNoWatcher ==
  /\ InUserCode
  /\ twoWay
  /\ _watcher = null
  /\ _locked' = TRUE
  /\ setWarned' = FALSE
  /\ UNCHANGED <<queueIndex, queue, userQueue, has, circular, waiting,
                 internalQueueDepleted, callbacks, pending, timerArmed, copies, i,
                 pc, phase, cur, histVars, invoked, twoWay, stale, lastCb,
                 lifeVars, late>>

\* Directive.prototype._bind(), called by user code; new Watcher is handed
\* this.vm, which _teardown has cleared: whether it then returns a watcher is
\* the collaborator's choice
CallBind(created) ==
  /\ InUserCode
  /\ binds < MaxBinds
  /\ vm => created
  /\ AssignDir(_bind([Dir EXCEPT !.calls = <<>>], created))
  /\ binds' = binds + 1
  /\ teardowns' = 0
  /\ UNCHANGED <<progVars, copies, i, pc, phase, cur, histVars, invoked, dirVars,
                 literal, expression, statement, def, params, late>>

\* Directive.prototype.on(event, handler), called by user code; on of util is
\* handed this.el, which _teardown has cleared: whether it then returns is the
\* collaborator's choice
CallOn(handler, attached) ==
  /\ InUserCode
  /\ Len(_listeners) < MaxListeners
  /\ el => attached
  /\ AssignDir(on(Dir, handler, attached))
  /\ UNCHANGED <<progVars, copies, i, pc, phase, cur, histVars, invoked, dirVars,
                 literal, expression, statement, def, params, binds, teardowns,
                 late>>

\* Directive.prototype._teardown(), called by user code
CallTeardown ==
  /\ InUserCode
  /\ teardowns < MaxTeardowns
  /\ AssignDir(_teardown(Dir))
  /\ teardowns' = teardowns + 1
  /\ UNCHANGED <<progVars, copies, i, pc, phase, cur, histVars, invoked, dirVars,
                 literal, expression, statement, def, params, binds, late>>

\* ------------------------------------------------------------- the drain
\* copies[i]() for the unlock closure of _withLock, part_001 lines 305-307
InvokeUnlock ==
  /\ pc = "drain"
  /\ i < Len(copies)
  /\ copies[i + 1] = UnlockCb
  /\ _locked' = FALSE
  /\ i' = i + 1
  /\ invoked' = Append(invoked, UnlockCb)
  /\ UNCHANGED <<queueIndex, queue, userQueue, has, circular, waiting,
                 internalQueueDepleted, callbacks, pending, timerArmed, copies,
                 pc, phase, cur, histVars, dirVars, lifeVars, late>>

\* the host runs nextTickHandler, env.js lines 80-83
NextTickHandler ==
  /\ pc = "idle"
  /\ timerArmed > 0
  /\ timerArmed' = timerArmed - 1
  /\ pending' = FALSE
  /\ copies' = callbacks
  /\ callbacks' = <<>>
  /\ i' = 0
  /\ pc' = "drain"
  /\ invoked' = <<>>
  /\ UNCHANGED <<queueIndex, queue, userQueue, has, circular, waiting,
                 internalQueueDepleted, _locked, phase, cur, histVars, dirVars, lifeVars, late>>

\* copies[i]() for a callback of user code: its body starts
InvokeUserCb ==
  /\ pc = "drain"
  /\ i < Len(copies)
  /\ copies[i + 1] > 0
  /\ pc' = "cb"
  /\ invoked' = Append(invoked, copies[i + 1])
  /\ UNCHANGED <<progVars, copies, i, phase, cur, histVars, dirVars, lifeVars, late>>

\* the body of the callback returns: i++
UserCbReturn ==
  /\ pc = "cb"
  /\ pc' = "drain"
  /\ i' = i + 1
  /\ UNCHANGED <<progVars, copies, phase, cur, histVars, invoked, dirVars, lifeVars, late>>

\* the body of the callback throws: the exception leaves copies[i]()
UserCbThrow ==
  /\ pc = "cb"
  /\ pc' = "cbThrown"
  /\ UNCHANGED <<progVars, copies, i, phase, cur, histVars, invoked, dirVars, lifeVars, late>>

\* copies[i]() for flushBatcherQueue: runBatcherQueue(queue) starts
InvokeFlush ==
  /\ pc = "drain"
  /\ i < Len(copies)
  /\ copies[i + 1] = FlushCb
  /\ pc' = "qloop"
  /\ phase' = "queue"
  /\ queueIndex' = 0
  /\ invoked' = Append(invoked, FlushCb)
  /\ runs' = [w \in Watchers |-> 0]
  /\ selfRuns' = [w \in Watchers |-> 0]
  /\ warned' = [w \in Watchers |-> 0]
  /\ reEnq' = {}
  /\ owed' = {}
  /\ userStarted' = FALSE
  /\ spliced' = {}
  /\ selfPushed' = FALSE
  /\ leftBehind' = {}
  /\ splicedNow' = <<>>
  /\ prevSpliced' = <<>>
  /\ UNCHANGED <<queue, userQueue, has, circular, waiting, internalQueueDepleted,
                 callbacks, pending, timerArmed, _locked, copies, i, cur, preEnq,
                 aborted, dirVars, lifeVars, late>>

\* the for loop of nextTickHandler ends, env.js line 84
NextTickHandlerReturn ==
  /\ pc = "drain"
  /\ i >= Len(copies)
  /\ pc' = "idle"
  /\ copies' = <<>>
  /\ i' = 0
  /\ late' = Len(callbacks)
  /\ UNCHANGED <<progVars, phase, cur, histVars, invoked, dirVars, lifeVars>>

\* an exception of a callback leaves nextTickHandler: no handler in env.js
\* lines 80-87, nor in part_000 lines 39-79
Unwind ==
  /\ pc \in {"cbThrown", "flushThrown"}
  /\ pc' = "idle"
  /\ copies' = <<>>
  /\ i' = 0
  /\ late' = Len(callbacks)
  /\ UNCHANGED <<progVars, phase, cur, histVars, invoked, dirVars, lifeVars>>

\* ------------------------------------------------------------- the flush
\* runBatcherQueue lines 61-65: the loop test holds, has[id] = null, run() starts
StartRun ==
  /\ pc = "qloop"
  /\ queueIndex < Len(Q)
  /\ LET w == Q[queueIndex + 1] IN
       /\ cur' = w
       /\ has' = clearHas(has, w)
       /\ runs' = [runs EXCEPT ![w] = @ + 1]
       /\ userStarted' = (userStarted \/ user(w))
       /\ owed' = owed \ {w}
       /\ leftBehind' = leftBehind \ {w}
       /\ stale' = (stale /\ w # DirWatcher)
       /\ lastCb' = IF w = DirWatcher THEN WatcherRun(stale, _locked) ELSE "none"
  /\ selfPushed' = FALSE
  /\ prevSpliced' = IF user(cur) THEN splicedNow ELSE <<>>
  /\ splicedNow' = <<>>
  /\ pc' = "run"
  /\ UNCHANGED <<queueIndex, queue, userQueue, circular, waiting,
                 internalQueueDepleted, callbacks, pending, timerArmed, _locked,
                 copies, i, phase, selfRuns, warned, preEnq, reEnq, spliced,
                 aborted, invoked, twoWay, setWarned, lifeVars, late>>

\* runBatcherQueue lines 67-77 (development build) and the loop's queueIndex++
RunReturn ==
  /\ pc = "run"
  /\ selfRuns' = IF selfPushed THEN [selfRuns EXCEPT ![cur] = @ + 1] ELSE selfRuns
  /\ IF has[cur] # null
       THEN /\ circular' = [circular EXCEPT ![cur] = @ + 1]
            /\ IF circular'[cur] > _maxUpdateCount
                 THEN /\ warned' = [warned EXCEPT ![cur] = @ + 1]
                      /\ leftBehind' = leftBehind \cup
                                          {w \in Watchers \ {cur} : Waiting(w) > 0}
                      /\ pc' = "qbreak"
                      /\ UNCHANGED queueIndex
                 ELSE /\ queueIndex' = queueIndex + 1
                      /\ pc' = "qloop"
                      /\ UNCHANGED <<warned, leftBehind>>
       ELSE /\ queueIndex' = queueIndex + 1
            /\ pc' = "qloop"
            /\ UNCHANGED <<circular, warned, leftBehind>>
  /\ UNCHANGED <<queue, userQueue, has, waiting, internalQueueDepleted, callbacks,
                 pending, timerArmed, _locked, copies, i, phase, cur, runs,
                 preEnq, reEnq, owed, userStarted, spliced, selfPushed, aborted,
                 splicedNow, prevSpliced, invoked, dirVars, lifeVars, late>>

\* watcher.run() throws: the exception leaves runBatcherQueue and
\* flushBatcherQueue, which have no handler
RunThrow ==
  /\ pc = "run"
  /\ pc' = "flushThrown"
  /\ aborted' = TRUE
  /\ UNCHANGED <<progVars, copies, i, phase, cur, runs, selfRuns, warned, preEnq,
                 reEnq, owed, userStarted, spliced, selfPushed, leftBehind,
                 splicedNow, prevSpliced, invoked, dirVars, lifeVars, late>>

LoopOver == (pc = "qloop" /\ queueIndex >= Len(Q)) \/ pc = "qbreak"

\* flushBatcherQueue lines 40-42: runBatcherQueue(queue) returned
SystemQueueDone ==
  /\ LoopOver
  /\ phase = "queue"
  /\ internalQueueDepleted' = TRUE
  /\ phase' = "userQueue"
  /\ queueIndex' = 0
  /\ pc' = "qloop"
  /\ UNCHANGED <<queue, userQueue, has, circular, waiting, callbacks, pending,
                 timerArmed, _locked, copies, i, cur, histVars, invoked, dirVars, lifeVars, late>>

\* flushBatcherQueue lines 42-49: runBatcherQueue(userQueue) returned
UserQueueDone ==
  /\ LoopOver
  /\ phase = "userQueue"
  /\ Assign(resetBatcherState(St))
  /\ pc' = "flushRet"
  /\ UNCHANGED <<copies, i, phase, cur, histVars, invoked, dirVars, lifeVars, late>>

\* flushBatcherQueue returned to nextTickHandler: i++
FlushReturn ==
  /\ pc = "flushRet"
  /\ pc' = "drain"
  /\ i' = i + 1
  /\ preEnq' = {}
  /\ UNCHANGED <<progVars, copies, phase, cur, runs, selfRuns, warned, reEnq,
                 owed, userStarted, spliced, selfPushed, aborted, leftBehind,
                 splicedNow, prevSpliced, invoked, dirVars, lifeVars, late>>

\* ------------------------------------------------------------- specification
\* the steps of a drain that runs flushes
Flush ==
  \/ NextTickHandler
  \/ InvokeFlush
  \/ NextTickHandlerReturn
  \/ Unwind
  \/ StartRun
  \/ RunReturn
  \/ RunThrow
  \/ SystemQueueDone
  \/ UserQueueDone
  \/ FlushReturn

Next ==
  \/ \E w \in Watchers : CallPushWatcher(w)
  \/ Flush

Spec == Init /\ [][Next]_vars

\* a directive, its watcher among the watchers of the batcher
NextDir ==
  \/ \E changed \in BOOLEAN : CallSet(changed)
  \/ InvokeUnlock
  \/ \E w \in {DirWatcher} \cup {u \in Watchers : user(u)} : CallPushWatcher(w)
  \/ Flush

SpecDir == Init /\ [][NextDir]_vars

\* a directive that is not two-way, its watcher among the watchers of the
\* batcher: no unlock callback is ever registered
NextOneWay ==
  \/ \E changed \in BOOLEAN : CallSet(changed)
  \/ \E w \in {DirWatcher} \cup {u \in Watchers : user(u)} : CallPushWatcher(w)
  \/ Flush

SpecOneWay == InitOneWay /\ [][NextOneWay]_vars

\* the coalescer with callbacks of user code, which may call nextTick and
\* pushWatcher, and may throw
NextTick ==
  \/ CallNextTick
  \/ NextTickHandler
  \/ InvokeUserCb
  \/ UserCbReturn
  \/ UserCbThrow
  \/ NextTickHandlerReturn
  \/ Unwind

SpecTick == Init /\ [][NextTick]_vars

\* the lifecycle of a directive: the calls of its methods in one turn
NextLife ==
  \/ \E created \in BOOLEAN : CallBind(created)
  \/ \E handler \in Handlers, attached \in BOOLEAN : CallOn(handler, attached)
  \/ CallTeardown
  \/ \E changed \in BOOLEAN : CallSet(changed)
  \/ CallSetNoWatcher

SpecLife == InitLife /\ [][NextLife]_vars

\* ------------------------------------------------------------- properties
\* control has just left flushBatcherQueue, by return or by exception
FlushLeft == pc \in {"flushRet", "flushThrown"}
\* control is leaving nextTickHandler, by return or by exception
DrainLeft == (pc = "drain" /\ i >= Len(copies)) \/ pc \in {"cbThrown", "flushThrown"}

\* C1: a watcher pushed one or more times before the flush, and not pushed
\* again while the flush runs, holds one place of its queue until the flush
\* and has been started exactly once when control leaves the flush.
C1_PushedBeforeFlushRunsOnce ==
  /\ (pc \in {"idle", "drain", "cb"} /\ ~aborted) =>
       \A w \in preEnq : Count(w, queue) + Count(w, userQueue) = 1
  /\ FlushLeft => \A w \in preEnq \ reEnq : runs[w] = 1

\* C2 as claimed: in a flush, no run() of a non-user watcher starts after the
\* run() of a user watcher has started, whoever enqueued it and when.
C2_NoSystemRunAfterUserRun ==
  (pc = "run" /\ ~user(cur)) => ~userStarted

\* C2 as amended: no user watcher is started before the pass over the system
\* queue has ended, and a non-user watcher started after a user watcher is
\* one that pushWatcher placed in the user queue during the user pass.
C2_SystemQueueBeforeUserQueue ==
  pc = "run" =>
    /\ user(cur) => (phase = "userQueue" /\ internalQueueDepleted)
    /\ phase = "queue" => ~userStarted
    /\ (~user(cur) /\ userStarted) => (phase = "userQueue" /\ cur \in spliced)

\* a flush in which a system watcher has run in the system pass, a user
\* watcher has run, and a system watcher pushed since is running
C2_Witness ==
  /\ pc = "run"
  /\ phase = "userQueue"
  /\ ~user(cur)
  /\ userStarted
  /\ \E w \in Watchers : ~user(w) /\ w # cur /\ runs[w] > 0

\* C3: a non-user watcher that pushWatcher accepted during the run() of
\* another watcher in the system pass has been started before any user watcher is started, and
\* before the flush returns.
C3_PushedInSystemPassRunsBeforeUser ==
  /\ (pc = "run" /\ user(cur)) => owed = {}
  /\ pc = "flushRet" => owed = {}

\* C4: a watcher that pushes itself on every one of its runs is started at
\* most _maxUpdateCount + 1 times in a flush and is warned about once.
C4_SelfPushingWatcherIsStopped ==
  \A w \in Watchers :
    LET done == runs[w] - (IF pc = "run" /\ cur = w THEN 1 ELSE 0)
    IN  /\ warned[w] <= 1
        /\ selfRuns[w] = done => runs[w] <= _maxUpdateCount + 1
        /\ (pc = "flushRet" /\ done > 0 /\ selfRuns[w] = done) => warned[w] = 1

\* C5: when control leaves nextTickHandler, the callbacks of the batch have
\* been invoked once each, in the order of their registration.
C5_DrainInvokesAllInOrder ==
  DrainLeft => invoked = copies

\* C6: when the run() of the directive's watcher delivers a value written by
\* Directive.set, the lock is held and _update does not call dir.update.
C6_SetDoesNotEchoIntoUpdate ==
  ~(pc = "run" /\ cur = DirWatcher /\ lastCb = "update")

\* C7: no watcher id holds two places that have not been started.
C7_NoIdWaitsTwice ==
  ~aborted => \A w \in Watchers : Waiting(w) <= 1

\* C8 as claimed: a non-user watcher pushed during its own run() in the
\* system pass is not started a second time in that flush.
C8_NoSecondRun ==
  (InFlush /\ phase = "queue") =>
    \A w \in Watchers :
      (selfRuns[w] > 0 \/ (pc = "run" /\ cur = w /\ selfPushed)) => runs[w] <= 1

\* C8 as amended: the push is accepted as a new place of the system queue
\* behind the running one, and when the pass reaches the end of the queue
\* every place has been started: the watcher has run once for each place.
C8_PushedInOwnRunRunsAgain ==
  /\ (pc = "run" /\ phase = "queue" /\ selfPushed) =>
       /\ has[cur] # null
       /\ has[cur] > queueIndex
       /\ has[cur] < Len(queue)
       /\ queue[has[cur] + 1] = cur
  /\ (pc = "qloop" /\ phase = "queue" /\ queueIndex >= Len(queue)) =>
       \A w \in Watchers : runs[w] = Count(w, queue)

\* the system pass is over; watcher 2 pushed itself in its first run and
\* has run twice, watcher 1 once
C8_Witness ==
  /\ pc = "qloop"
  /\ phase = "queue"
  /\ queueIndex >= Len(queue)
  /\ queue = <<1, 2, 2>>
  /\ selfRuns[2] = 1
  /\ runs[2] = 2
  /\ runs[1] = 1

\* C9: when control has left flushBatcherQueue, by return or by exception,
\* the batcher's state is the reset state.
C9_StateResetAfterFlush ==
  FlushLeft =>
    /\ queue = <<>>
    /\ userQueue = <<>>
    /\ \A w \in Watchers : has[w] = null /\ circular[w] = 0
    /\ ~waiting
    /\ ~internalQueueDepleted

\* C10: when an exception of a callback ends the drain, every callback of the
\* snapshot has been invoked once all the same.
C10_ThrowDoesNotSkipCallbacks ==
  pc \in {"cbThrown", "flushThrown"} =>
    \A k \in 1..Len(copies) :
      Cardinality({j \in 1..Len(invoked) : invoked[j] = copies[k]}) = 1

\* C11: when the runaway check stops a watcher, every other watcher that
\* waited in either queue at that moment has been started by the time the
\* flush returns and resets the queues.
C11_RunawaySparesOtherJobs ==
  pc = "flushRet" => leftBehind = {}

\* the flush callbacks registered with the coalescer and not yet invoked
RegisteredFlushes ==
  Count(FlushCb, callbacks)
    + (IF pc \in {"cbThrown", "flushThrown"}
         THEN 0
         ELSE LET from == IF pc = "drain" THEN i + 1 ELSE i + 2
              IN  Cardinality({k \in from..Len(copies) : copies[k] = FlushCb}))

\* C12: at most one timer is armed, and one is armed exactly while a batch
\* is pending; a drain invokes callbacks of its snapshot only; and every
\* callback registered while a drain was running has been invoked exactly
\* once when control leaves the next drain.
C12_OneDrainPerBatch ==
  /\ timerArmed <= 1
  /\ pending <=> (timerArmed = 1)
  /\ pending <=> (callbacks # <<>>)
  /\ pc \in {"drain", "cb", "cbThrown"} =>
       /\ Len(invoked) <= Len(copies)
       /\ invoked = SubSeq(copies, 1, Len(invoked))
       /\ late <= Len(copies)
  /\ DrainLeft =>
       \A k \in 1..late :
         Cardinality({j \in 1..Len(invoked) : invoked[j] = copies[k]}) = 1

\* the number of calls of name(arg) the directive has made since _bind began
Calls(name, arg) == Cardinality({k \in 1..Len(calls) : calls[k] = <<name, arg>>})
\* the place of the first call of name(arg), 0 when there is none
Place(name, arg) ==
  IF Calls(name, arg) = 0
    THEN 0
    ELSE CHOOSE k \in 1..Len(calls) :
           /\ calls[k] = <<name, arg>>
           /\ \A j \in 1..(k - 1) : calls[j] # <<name, arg>>
\* a step that is a call of _teardown
TeardownStep == teardowns' = teardowns + 1

\* C13: a call of _teardown on a directive that is not bound changes nothing
\* and calls nothing, a call on a bound one removes each registration of a
\* listener once; so once a directive bound once has been torn down, however
\* many calls of _teardown follow, unbind, the watcher's teardown and each
\* param's unwatch function have been called exactly once.
C13_TeardownIdempotent ==
  /\ [][TeardownStep =>
          IF _bound
            THEN \A h \in Handlers :
                   Calls("off", h)' = Calls("off", h) + Count(h, _listeners)
            ELSE UNCHANGED <<progVars, dirVars, _bound, _watcher, _listeners,
                             _paramUnwatchFns, vm, el, calls, binds>>]_vars
  /\ [](binds = 1 /\ teardowns >= 1 =>
          /\ Calls("unbind", NoArg) = (IF "unbind" \in def THEN 1 ELSE 0)
          /\ Calls("teardown", NoArg) = Calls("new Watcher", NoArg)
          /\ \A k \in 1..params : Calls("unwatch", k) = 1)

\* a directive that has unbind, a watcher, a listener and params has been
\* bound once and torn down twice
C13_Witness ==
  /\ binds = 1
  /\ teardowns = 2
  /\ "unbind" \in def
  /\ params = MaxParams
  /\ Calls("new Watcher", NoArg) = 1
  /\ \E h \in Handlers : Calls("off", h) = 1

\* C14: once _teardown has torn the directive down (it alone clears vm), the
\* directive is not bound again and has no watcher.
C14_TornDownIsTerminal ==
  ~vm => (~_bound /\ _watcher = null)

\* what C15 says of a literal directive apart from the number of updates:
\* it never has a watcher, _bind creates none, update is called with the raw
\* text only, and after bind when the definition has bind
LiteralBindsWithoutWatcher ==
  /\ _watcher = null
  /\ Calls("new Watcher", NoArg) = 0
  /\ Calls("update", ValueArg) = 0
  /\ Calls("update", HandlerArg) = 0
  /\ (Calls("bind", NoArg) > 0 /\ Calls("update", RawArg) > 0) =>
       Place("bind", NoArg) < Place("update", RawArg)

\* C15 as claimed: a call of _bind on a literal directive creates no watcher
\* and calls update exactly once, with the raw text, after bind.
C15_LiteralUpdatesOnce ==
  (literal /\ binds >= 1) =>
    /\ LiteralBindsWithoutWatcher
    /\ Calls("update", RawArg) = 1

\* C15 as amended: the same, update being called exactly once when the
\* definition has update and not at all when it has none.
C15_LiteralUpdatesOnceIfPresent ==
  literal =>
    /\ LiteralBindsWithoutWatcher
    /\ binds >= 1 =>
         Calls("update", RawArg) = (IF "update" \in def THEN 1 ELSE 0)

\* a literal directive with bind and update has been bound
C15_Witness ==
  /\ literal
  /\ binds = 1
  /\ _bound
  /\ {"bind", "update"} \subseteq def
  /\ Place("bind", NoArg) > 0
  /\ Place("update", RawArg) = Place("bind", NoArg) + 1

\* C16: a call of set on a directive that is not two-way warns and changes
\* nothing: the lock, the queues, the callbacks and the thread's position
\* are as before; such a directive never holds the lock and never has an
\* unlock callback registered.
C16_SetOnOneWayIsNoOp ==
  /\ [][(~twoWay /\ \E changed \in BOOLEAN : CallSet(changed)) =>
          /\ setWarned'
          /\ UNCHANGED <<progVars, copies, i, pc, stale>>]_vars
  /\ [](~twoWay =>
          /\ ~_locked
          /\ ~stale
          /\ Count(UnlockCb, callbacks) = 0
          /\ Count(UnlockCb, copies) = 0)

\* set has been called on a directive that is not two-way, while a watcher
\* waits for the flush
C16_Witness ==
  /\ ~twoWay
  /\ setWarned
  /\ queue # <<>>

\* C17: while the run() of a user watcher is in progress in the user pass,
\* the watcher pushWatcher spliced last holds the place behind the running
\* one; and the watcher started next is the one that run() spliced.
C17_SplicedRunsNext ==
  /\ (pc = "run" /\ phase = "userQueue" /\ splicedNow # <<>>) =>
       /\ queueIndex + 2 <= Len(userQueue)
       /\ userQueue[queueIndex + 2] = splicedNow[Len(splicedNow)]
  /\ (pc = "run" /\ phase = "userQueue") =>
       \A k \in 1..Len(prevSpliced) : prevSpliced[k] = cur

\* the calls a call of _teardown on a bound directive is to make, in order
TeardownCalls ==
  LET u == IF "unbind" \in def THEN 1 ELSE 0
      t == IF _watcher # null THEN 1 ELSE 0
      n == Len(_listeners)
      m == Len(_paramUnwatchFns)
  IN  [k \in 1..(u + t + n + m) |->
         IF k <= u THEN <<"unbind", NoArg>>
         ELSE IF k <= u + t THEN <<"teardown", NoArg>>
         ELSE IF k <= u + t + n THEN <<"off", _listeners[n + 1 - (k - u - t)]>>
         ELSE <<"unwatch", _paramUnwatchFns[m + 1 - (k - u - t - n)]>>]

\* C18: a call of _teardown on a bound directive calls unbind, then the
\* watcher's teardown, then off for each entry of _listeners from the last
\* to the first, then each unwatch function from the last to the first, and
\* leaves vm, el, _watcher and _listeners cleared and _bound false.
C18_TeardownReleasesInOrder ==
  [][(TeardownStep /\ _bound) =>
       /\ calls' = calls \o TeardownCalls
       /\ ~_bound'
       /\ ~vm'
       /\ ~el'
       /\ _watcher' = null
       /\ _listeners' = <<>>]_vars

\* a directive with unbind, a watcher, two params and the listeners 1 and 2,
\* registered in that order, has been torn down
C18_Witness ==
  /\ binds = 1
  /\ teardowns = 1
  /\ ~_bound
  /\ params = 2
  /\ Len(calls) >= 6
  /\ SubSeq(calls, Len(calls) - 5, Len(calls)) =
       << <<"unbind", NoArg>>, <<"teardown", NoArg>>, <<"off", 2>>, <<"off", 1>>,
          <<"unwatch", 1>>, <<"unwatch", 2>> >>

\* C19: at most one flush is registered with the coalescer; when a watcher
\* waits in a queue and no flush is running, waiting is true and a flush is
\* registered; during a flush none is registered, and a watcher pushed
\* during the flush is not left behind by it.
C19_OneFlushRegisteredNoJobStranded ==
  /\ RegisteredFlushes <= 1
  /\ (~InFlush /\ pc # "flushRet" /\ \E w \in Watchers : Waiting(w) > 0) =>
       (waiting /\ RegisteredFlushes = 1)
  /\ InFlush => RegisteredFlushes = 0
  /\ pc = "flushRet" => leftBehind \cap reEnq = {}

\* C20: when the run() of a user watcher has spliced two distinct watchers B
\* and then C into the user queue, the watcher started next is B.
C20_SplicedRunInEnqueueOrder ==
  (pc = "run" /\ phase = "userQueue" /\ Len(prevSpliced) = 2
     /\ prevSpliced[1] # prevSpliced[2]) => cur = prevSpliced[1]

\* the unlock callbacks registered with the coalescer that a drain is still
\* to invoke: an exception drops the rest of the snapshot
PendingUnlocks ==
  Count(UnlockCb, callbacks)
    + (IF pc \in {"cbThrown", "flushThrown"}
         THEN 0
         ELSE LET from == IF pc = "drain" THEN i + 1 ELSE i + 2
              IN  Cardinality({k \in from..Len(copies) : copies[k] = UnlockCb}))

\* C21: whenever the lock of the two-way directive is held, an unlock
\* callback is pending in the coalescer; and when the coalescer has drained
\* (no callback registered, no drain running) the lock is not held, whether
\* or not a watcher's run() threw in a flush.
C21_LockReleasedByPendingUnlock ==
  /\ _locked => PendingUnlocks > 0
  /\ (pc = "idle" /\ callbacks = <<>>) => ~_locked

====
